---- MODULE Spec2Model ----
(* InTrack API (src/main.py): the expense approval workflow, the project    *)
(* number counter and the role checks in front of them.  The collections of *)
(* the document database are the state; each request handler is cut into    *)
(* one step per database operation, so that concurrent requests interleave  *)
(* between their find_one and their update_one exactly as the code allows.  *)
(* The handlers are async functions that never await, so one event loop     *)
(* runs each of them uninterrupted: the workers below are server processes  *)
(* of the app sharing the one database.                                     *)
EXTENDS Integers, Sequences, FiniteSets, TLC

VARIABLES
    users,      \* collection "user": _id -> [email, password, role]
    session,    \* collection "session": token -> [user_id] (tokens are uuid4, unique)
    expense,    \* collection "expense": sequence of documents, _id = index
    counter,    \* collection "counter": <<>> or <<[value |-> n]>> (_id "project_number")
    project,    \* collection "project": sequence of documents in insert order
    leave,      \* collection "leave": sequence of documents, _id = index
    uuids,      \* number of uuid4() values drawn so far; the n-th drawn is n
    calls,      \* per server process: position in the handler and its locals
    resp        \* the HTTP response on its way to the client: [code, detail,
                \* number, user, token]; NoResp once it is delivered

vars == <<users, session, uuids, expense, counter, project, leave, calls, resp>>

(* ------------------------------ bounds ---------------------------------- *)
NumProcs == 2        \* server processes running handlers concurrently
MaxExpenses == 1     \* expense documents created
MaxApprovals == 3    \* audit entries pushed, over all expenses
MaxProjects == 3     \* project numbers issued
MaxLeaves == 1       \* leave documents created
MaxUsers == 2        \* user records inserted by register
MaxSessions == 2     \* session tokens issued by login

Procs == 1..NumProcs

(* ------------------------------ constants ------------------------------- *)
ALLOWED_ROLES == {"Admin", "Manager", "Engineer", "Accountant"}

\* ApproveBody.action: pattern ^(approve|reject)$
Actions == {"approve", "reject"}

\* HTTP status codes raised by the handlers
OK == 200
BadRequest == 400
Unauthenticated == 401
Forbidden == 403
NotFound == 404
Conflict == 409

\* The user directory the workflow runs against: one registered user per role.
SeedUsers ==
    <<[email |-> "admin@x",  password |-> "pw1", role |-> "Admin"],
      [email |-> "mgr@x",    password |-> "pw2", role |-> "Manager"],
      [email |-> "eng@x",    password |-> "pw3", role |-> "Engineer"],
      [email |-> "acct@x",   password |-> "pw4", role |-> "Accountant"]>>

\* One session per seeded user; token t belongs to user t.
SeedSessions == [t \in 1..Len(SeedUsers) |-> [user_id |-> t]]

\* Token 0 is a well-formed bearer token that no session holds.
Tokens == 0..Len(SeedUsers)

\* Authorization header values: absent, or <<scheme, token>>.
NoHeader == <<>>
AuthHeaders == {NoHeader, <<"Basic", 1>>} \cup ({"Bearer"} \X Tokens)

\* Authorization header values sent to the auth endpoints: token 0 is never
\* issued, 1..MaxSessions are the tokens login can issue.
SessionHeaders == {NoHeader, <<"Basic", 1>>} \cup ({"Bearer"} \X (0..MaxSessions))

\* RegisterBody values that pass validation (role matches the pattern)
Emails == {"a@x", "b@x"}
Passwords == {"secret1", "secret2"}
RegisterBodies == [email : Emails, password : Passwords, role : {"Engineer"}]

\* LoginBody values
LoginBodies == [email : Emails, password : Passwords]

\* Path parameter expense_id: ids already stored and one id not stored.
ExpenseIds == 1..(MaxExpenses + 1)

\* Path parameter leave_id: ids already stored and one id not stored.
LeaveIds == 1..(MaxLeaves + 1)

(* ------------------------------ helpers --------------------------------- *)
\* str.lower() on the scheme part of the header
Lower(s) == IF s = "Bearer" THEN "bearer" ELSE IF s = "Basic" THEN "basic" ELSE s

\* find_one on a collection kept as a sequence indexed by _id: <<doc>> or <<>>
FindOne(coll, id) == IF id \in DOMAIN coll THEN <<coll[id]>> ELSE <<>>

\* find_one({"token": token}) on the session collection: <<doc>> or <<>>
FindSession(token) == IF token \in DOMAIN session THEN <<session[token]>> ELSE <<>>

NoUser(detail) == [code |-> Unauthenticated, detail |-> detail, _id |-> 0, role |-> "none"]

\* get_current_user: header -> user record, or 401
get_current_user(h) ==
    IF h = NoHeader \/ Lower(h[1]) # "bearer"
    THEN NoUser("Not authenticated")
    ELSE LET ss == FindSession(h[2]) IN
         IF ss = <<>> THEN NoUser("Invalid session")
         ELSE IF ss[1].user_id \notin DOMAIN users THEN NoUser("User not found")
         ELSE [code |-> OK, detail |-> "", _id |-> ss[1].user_id,
               role |-> users[ss[1].user_id].role]

\* require_roles that forgets the membership test
require_roles_any(roles, h) == get_current_user(h)

\* require_roles(*roles): the checker dependency
require_roles(roles, h) ==
    LET user == get_current_user(h) IN
    IF user.code # OK THEN user
    ELSE IF user.role \notin roles
         THEN [user EXCEPT !.code = Forbidden, !.detail = "Forbidden"]
    ELSE user

(* ------------------------------ call records ---------------------------- *)
\* The locals a handler still uses after its first database operation:
\* approve_expense keeps the user (by, role), expense_id, body.action and
\* new_status for its update_one; create_project keeps the user and number;
\* register keeps the body (email, password, role); login keeps the _id of
\* the user it found (by).
Idle == [pc |-> "idle", by |-> 0, role |-> "none", id |-> 0, action |-> "none",
         new_status |-> "none", number |-> 0, email |-> "", password |-> ""]

\* no response on its way
NoResp == [code |-> 0, detail |-> "", number |-> 0, user |-> 0, token |-> 0]
\* raise HTTPException(status_code, detail)
HTTPException(code, detail) == [NoResp EXCEPT !.code = code, !.detail = detail]
\* a 200 response
Success == [NoResp EXCEPT !.code = OK]

Init ==
    /\ users = SeedUsers
    /\ session = SeedSessions
    /\ uuids = Len(SeedUsers)
    /\ expense = <<>>
    /\ counter = <<>>
    /\ project = <<>>
    /\ leave = <<>>
    /\ calls = [p \in Procs |-> Idle]
    /\ resp = NoResp

\* the database before any request: every collection empty
AuthInit ==
    /\ users = <<>>
    /\ session = <<>>
    /\ uuids = 0
    /\ expense = <<>>
    /\ counter = <<>>
    /\ project = <<>>
    /\ leave = <<>>
    /\ calls = [p \in Procs |-> Idle]
    /\ resp = NoResp

(* ------------------------------ auth ------------------------------------ *)
\* find_one({"email": email}) on the user collection: the _id of the first
\* document with that email in <<_id>>, or <<>>
FindUserByEmail(email) ==
    LET ids == { i \in DOMAIN users : users[i].email = email } IN
    IF ids = {} THEN <<>> ELSE <<CHOOSE i \in ids : \A j \in ids : i <= j>>

\* user records register has inserted or is about to insert
UsersClaimed == Len(users) + Cardinality({ q \in Procs : calls[q].pc = "insert_user" })

\* POST /auth/register, up to the existence lookup
register_find(p, body) ==
    /\ calls[p].pc = "idle"
    /\ resp = NoResp
    /\ IF body.role \notin ALLOWED_ROLES
       THEN /\ resp' = HTTPException(BadRequest, "Invalid role")
            /\ UNCHANGED calls
       ELSE IF FindUserByEmail(body.email) # <<>>
       THEN /\ resp' = HTTPException(Conflict, "Email already registered")
            /\ UNCHANGED calls
       ELSE /\ UsersClaimed < MaxUsers
            /\ calls' = [calls EXCEPT ![p] =
                   [Idle EXCEPT !.pc = "insert_user", !.email = body.email,
                                !.password = body.password, !.role = body.role]]
            /\ UNCHANGED resp
    /\ UNCHANGED <<users, session, uuids, expense, counter, project, leave>>

\* the insert_one of register and its response
register_insert(p) ==
    /\ calls[p].pc = "insert_user"
    /\ resp = NoResp
    /\ users' = Append(users, [email |-> calls[p].email, password |-> calls[p].password,
                               role |-> calls[p].role])
    /\ resp' = [Success EXCEPT !.user = Len(users')]
    /\ calls' = [calls EXCEPT ![p] = Idle]
    /\ UNCHANGED <<session, uuids, expense, counter, project, leave>>

\* the credentials test of login without the password comparison
InvalidCredentialsNoPassword(user, body) == user = <<>>

\* not user or user.get("password") != body.password
InvalidCredentials(user, body) ==
    user = <<>> \/ users[user[1]].password # body.password

\* tokens login has issued or is about to issue
TokensClaimed == uuids + Cardinality({ q \in Procs : calls[q].pc = "insert_session" })

\* POST /auth/login, up to the credentials test
login_find(p, body) ==
    /\ calls[p].pc = "idle"
    /\ resp = NoResp
    /\ LET user == FindUserByEmail(body.email) IN
       IF InvalidCredentials(user, body)
       THEN /\ resp' = HTTPException(Unauthenticated, "Invalid credentials")
            /\ UNCHANGED calls
       ELSE /\ TokensClaimed < MaxSessions
            /\ calls' = [calls EXCEPT ![p] = [Idle EXCEPT !.pc = "insert_session",
                                                          !.by = user[1]]]
            /\ UNCHANGED resp
    /\ UNCHANGED <<users, session, uuids, expense, counter, project, leave>>

\* insert_one on the session collection
InsertSession(coll, token, user_id) ==
    [t \in DOMAIN coll \cup {token} |->
        IF t = token THEN [user_id |-> user_id] ELSE coll[t]]

\* the rest of login: uuid4(), the insert_one of the session, the response
login_insert(p) ==
    /\ calls[p].pc = "insert_session"
    /\ resp = NoResp
    /\ uuids' = uuids + 1
    /\ session' = InsertSession(session, uuids', calls[p].by)
    /\ resp' = [Success EXCEPT !.token = uuids', !.user = calls[p].by]
    /\ calls' = [calls EXCEPT ![p] = Idle]
    /\ UNCHANGED <<users, expense, counter, project, leave>>

\* GET /auth/me
me(p, h) ==
    /\ calls[p].pc = "idle"
    /\ resp = NoResp
    /\ LET user == get_current_user(h) IN
       resp' = IF user.code # OK THEN HTTPException(user.code, user.detail)
               ELSE [Success EXCEPT !.user = user._id]
    /\ UNCHANGED <<users, session, uuids, expense, counter, project, leave, calls>>

\* a logout that deletes every session of the token's user
DeleteManyOfUser(coll, token) ==
    IF token \notin DOMAIN coll THEN coll
    ELSE LET keep == { t \in DOMAIN coll : coll[t].user_id # coll[token].user_id } IN
         [t \in keep |-> coll[t]]

\* delete_one({"token": token}) on the session collection
DeleteOne(coll, token) == [t \in DOMAIN coll \ {token} |-> coll[t]]

\* POST /auth/logout
logout(p, h) ==
    /\ calls[p].pc = "idle"
    /\ resp = NoResp
    /\ session' = IF h = NoHeader \/ Lower(h[1]) # "bearer" THEN session
                  ELSE DeleteOne(session, h[2])
    /\ resp' = Success
    /\ UNCHANGED <<users, uuids, expense, counter, project, leave, calls>>

(* ------------------------------ projects -------------------------------- *)
\* the counter update written with $set in place of $inc
IncCounterSet(doc) == <<[value |-> 1]>>

\* find_one_and_update({"_id": "project_number"}, {"$inc": {"value": 1}}, upsert=True):
\* the counter document after the update
IncCounter(doc) ==
    IF doc = <<>> THEN <<[value |-> 1]>> ELSE <<[value |-> doc[1].value + 1]>>

\* _next_project_number: return_document=True hands back the updated document
NextProjectNumber(doc) == IncCounter(doc)[1].value

\* POST /projects, up to the return of _next_project_number (one atomic
\* find_one_and_update on the counter collection)
create_project_number(p, h) ==
    /\ calls[p].pc = "idle"
    /\ resp = NoResp
    /\ LET user == require_roles({"Admin", "Manager"}, h) IN
       IF user.code # OK
       THEN /\ resp' = HTTPException(user.code, user.detail)
            /\ UNCHANGED <<counter, calls>>
       ELSE /\ NextProjectNumber(counter) <= MaxProjects
            /\ counter' = IncCounter(counter)
            /\ calls' = [calls EXCEPT ![p] =
                   [Idle EXCEPT !.pc = "insert", !.by = user._id, !.role = user.role,
                                !.number = NextProjectNumber(counter)]]
            /\ UNCHANGED resp
    /\ UNCHANGED <<users, session, uuids, expense, project, leave>>

\* the insert_one of create_project and its response
create_project_insert(p) ==
    /\ calls[p].pc = "insert"
    /\ resp = NoResp
    /\ project' = Append(project, [number |-> calls[p].number, created_by |-> calls[p].by])
    /\ resp' = [Success EXCEPT !.number = calls[p].number]
    /\ calls' = [calls EXCEPT ![p] = Idle]
    /\ UNCHANGED <<users, session, uuids, expense, counter, leave>>

(* ------------------------------ expenses -------------------------------- *)
\* the document create_expense inserts.  Of its fields the handlers read
\* status and approvals only; the payload (project_id, amount, currency,
\* description), requested_by and the timestamps are written once, never
\* read by a handler's branch, and are left out of the state.
NewExpense(user) == [status |-> "pending_manager", approvals |-> <<>>]

\* POST /expenses
create_expense(p, h) ==
    /\ calls[p].pc = "idle"
    /\ resp = NoResp
    /\ LET user == require_roles({"Engineer", "Manager", "Admin"}, h) IN
       IF user.code # OK
       THEN /\ resp' = HTTPException(user.code, user.detail)
            /\ UNCHANGED expense
       ELSE /\ Len(expense) < MaxExpenses
            /\ expense' = Append(expense, NewExpense(user))
            /\ resp' = Success
    /\ UNCHANGED <<users, session, uuids, counter, project, leave, calls>>

\* the gate without its accountant stage
RoleAllowedManagerOnly(status, role) ==
    ~(status = "pending_manager" /\ role \notin {"Manager", "Admin"})

\* the gate without its manager stage
RoleAllowedAccountantOnly(status, role) ==
    ~(status = "pending_accountant" /\ role \notin {"Accountant", "Admin"})

\* the role gate of approve_expense: TRUE when the call is let through
RoleAllowed(status, role) ==
    /\ ~(status = "pending_manager" /\ role \notin {"Manager", "Admin"})
    /\ ~(status = "pending_accountant" /\ role \notin {"Accountant", "Admin"})

\* the detail of the 403 the gate raises
GateDetail(status) ==
    IF status = "pending_manager" THEN "Manager approval required"
    ELSE "Accountant approval required"

\* new_status with the manager stage approving outright
NewStatusSkipAccountant(status, action) ==
    IF action = "reject" THEN "rejected"
    ELSE IF status \in {"pending_manager", "pending_accountant"} THEN "approved"
    ELSE status

\* new_status without its elif branch
NewStatusNoElif(status, action) ==
    IF action = "reject" THEN "rejected"
    ELSE IF status = "pending_manager" THEN "pending_accountant"
    ELSE status

\* new_status rejecting at the manager stage only
NewStatusRejectFirstStage(status, action) ==
    IF action = "reject" /\ status = "pending_manager" THEN "rejected"
    ELSE IF action = "reject" THEN status
    ELSE IF status = "pending_manager" THEN "pending_accountant"
    ELSE IF status = "pending_accountant" THEN "approved"
    ELSE status

\* new_status with a final else that approves
NewStatusElseApproved(status, action) ==
    IF action = "reject" THEN "rejected"
    ELSE IF status = "pending_manager" THEN "pending_accountant"
    ELSE "approved"

\* new_status initialised with the literal of create_expense, not the status read
NewStatusInitPending(status, action) ==
    IF action = "reject" THEN "rejected"
    ELSE IF status = "pending_manager" THEN "pending_accountant"
    ELSE IF status = "pending_accountant" THEN "approved"
    ELSE "pending_manager"

\* new_status as approve_expense computes it
NewStatus(status, action) ==
    IF action = "reject" THEN "rejected"
    ELSE IF status = "pending_manager" THEN "pending_accountant"
    ELSE IF status = "pending_accountant" THEN "approved"
    ELSE status

\* approval_entry
ApprovalEntry(c) == [by |-> c.by, role |-> c.role, action |-> c.action]

\* update_one with approvals under $set: the list is replaced by the entry
UpdateOneSetApprovals(doc, new_status, entry) ==
    [doc EXCEPT !.status = new_status, !.approvals = <<entry>>]

\* update_one filtered on a non-terminal stored status: the push lands, the
\* status of an approved or rejected document stays
UpdateOneKeepTerminal(doc, new_status, entry) ==
    IF doc.status \in {"approved", "rejected"}
    THEN [doc EXCEPT !.approvals = Append(@, entry)]
    ELSE [doc EXCEPT !.status = new_status, !.approvals = Append(@, entry)]

\* update_one without its $push
UpdateOneNoPush(doc, new_status, entry) ==
    [doc EXCEPT !.status = new_status]

\* update_one: $set status, $push approvals on the stored document
UpdateOne(doc, new_status, entry) ==
    [doc EXCEPT !.status = new_status, !.approvals = Append(@, entry)]

RECURSIVE Pushed(_)
\* audit entries stored in the first n expense documents
Pushed(n) == IF n = 0 THEN 0 ELSE Len(expense[n].approvals) + Pushed(n - 1)

\* handlers that have read an expense and not yet written it
PendingUpdates == Cardinality({ q \in Procs : calls[q].pc = "update" })

\* POST /expenses/{id}/approve, up to the end of the status computation
approve_expense_read(p, h, id, action) ==
    /\ calls[p].pc = "idle"
    /\ resp = NoResp
    /\ LET user == get_current_user(h)
           exp == FindOne(expense, id)
       IN
       IF user.code # OK
       THEN /\ resp' = HTTPException(user.code, user.detail)
            /\ UNCHANGED calls
       ELSE IF exp = <<>>
       THEN /\ resp' = HTTPException(NotFound, "Expense not found")
            /\ UNCHANGED calls
       ELSE IF ~RoleAllowed(exp[1].status, user.role)
       THEN /\ resp' = HTTPException(Forbidden, GateDetail(exp[1].status))
            /\ UNCHANGED calls
       ELSE /\ Pushed(Len(expense)) + PendingUpdates < MaxApprovals
            /\ calls' = [calls EXCEPT ![p] =
                   [Idle EXCEPT !.pc = "update", !.by = user._id, !.role = user.role,
                                !.id = id, !.action = action,
                                !.new_status = NewStatus(exp[1].status, action)]]
            /\ UNCHANGED resp
    /\ UNCHANGED <<users, session, uuids, expense, counter, project, leave>>

\* the rest of approve_expense: the update_one, then the find_one that reads
\* the document back for the 200 response
approve_expense_update(p) ==
    /\ calls[p].pc = "update"
    /\ resp = NoResp
    /\ LET c == calls[p] IN
       expense' = [expense EXCEPT ![c.id] = UpdateOne(@, c.new_status, ApprovalEntry(c))]
    /\ FindOne(expense', calls[p].id) # <<>>
    /\ resp' = Success
    /\ calls' = [calls EXCEPT ![p] = Idle]
    /\ UNCHANGED <<users, session, uuids, counter, project, leave>>

(* ------------------------------ leaves ---------------------------------- *)
\* the document request_leave inserts; the dates and the reason are written
\* once, never read by a handler's branch, and are left out of the state
NewLeave(user) == [status |-> "pending_manager", user_id |-> user._id]

\* POST /leaves
request_leave(p, h) ==
    /\ calls[p].pc = "idle"
    /\ resp = NoResp
    /\ LET user == require_roles({"Engineer", "Manager", "Admin", "Accountant"}, h) IN
       IF user.code # OK
       THEN /\ resp' = HTTPException(user.code, user.detail)
            /\ UNCHANGED leave
       ELSE /\ Len(leave) < MaxLeaves
            /\ leave' = Append(leave, NewLeave(user))
            /\ resp' = Success
    /\ UNCHANGED <<users, session, uuids, expense, counter, project, calls>>

\* new_status of approve_leave with the two stages of approve_expense
LeaveStatusTwoStage(status, action) ==
    IF action = "reject" THEN "rejected"
    ELSE IF status = "pending_manager" THEN "pending_accountant"
    ELSE "approved"

\* new_status as approve_leave computes it: from the action alone
LeaveStatus(status, action) ==
    IF action = "approve" THEN "approved" ELSE "rejected"

\* POST /leaves/{id}/approve, up to the computation of new_status
approve_leave_read(p, h, id, action) ==
    /\ calls[p].pc = "idle"
    /\ resp = NoResp
    /\ LET user == require_roles({"Manager", "Admin"}, h)
           lv == FindOne(leave, id)
       IN
       IF user.code # OK
       THEN /\ resp' = HTTPException(user.code, user.detail)
            /\ UNCHANGED calls
       ELSE IF lv = <<>>
       THEN /\ resp' = HTTPException(NotFound, "Leave not found")
            /\ UNCHANGED calls
       ELSE /\ calls' = [calls EXCEPT ![p] =
                   [Idle EXCEPT !.pc = "update_leave", !.id = id, !.action = action,
                                !.new_status = LeaveStatus(lv[1].status, action)]]
            /\ UNCHANGED resp
    /\ UNCHANGED <<users, session, uuids, expense, counter, project, leave>>

\* the rest of approve_leave: the update_one, then the find_one that reads
\* the document back for the 200 response
approve_leave_update(p) ==
    /\ calls[p].pc = "update_leave"
    /\ resp = NoResp
    /\ leave' = [leave EXCEPT ![calls[p].id].status = calls[p].new_status]
    /\ FindOne(leave', calls[p].id) # <<>>
    /\ resp' = Success
    /\ calls' = [calls EXCEPT ![p] = Idle]
    /\ UNCHANGED <<users, session, uuids, expense, counter, project>>

\* the response leaves the server; the next response can be built
send_response ==
    /\ resp # NoResp
    /\ resp' = NoResp
    /\ UNCHANGED <<users, session, uuids, expense, counter, project, leave, calls>>

(* ------------------------------ specifications -------------------------- *)
\* The processes run the same code, so which idle one takes a request makes
\* no difference: an incoming request goes to the first idle process.
Accepting ==
    LET idle == { p \in Procs : calls[p].pc = "idle" } IN
    { p \in idle : \A q \in idle : p <= q }

\* concurrent requests
Next ==
    \/ \E p \in Accepting, h \in AuthHeaders : create_expense(p, h)
    \/ \E p \in Accepting, h \in AuthHeaders, id \in ExpenseIds, a \in Actions :
           approve_expense_read(p, h, id, a)
    \/ \E p \in Procs : approve_expense_update(p)
    \/ send_response

Spec == Init /\ [][Next]_vars

\* the server process that takes every request when calls do not overlap
SeqProc == 1

\* one request at a time: a single process runs every handler to its response
NextSeq ==
    \/ \E h \in AuthHeaders : create_expense(SeqProc, h)
    \/ \E h \in AuthHeaders, id \in ExpenseIds, a \in Actions :
           approve_expense_read(SeqProc, h, id, a)
    \/ approve_expense_update(SeqProc)
    \/ send_response

SeqSpec == Init /\ [][NextSeq]_vars

\* concurrent create_project requests
NextProject ==
    \/ \E p \in Accepting, h \in AuthHeaders : create_project_number(p, h)
    \/ \E p \in Procs : create_project_insert(p)
    \/ send_response

ProjectSpec == Init /\ [][NextProject]_vars

\* concurrent leave requests and decisions
NextLeave ==
    \/ \E p \in Accepting, h \in AuthHeaders : request_leave(p, h)
    \/ \E p \in Accepting, h \in AuthHeaders, id \in LeaveIds, a \in Actions :
           approve_leave_read(p, h, id, a)
    \/ \E p \in Procs : approve_leave_update(p)
    \/ send_response

LeaveSpec == Init /\ [][NextLeave]_vars

\* leave requests and decisions, one request at a time
NextLeaveSeq ==
    \/ \E h \in AuthHeaders : request_leave(SeqProc, h)
    \/ \E h \in AuthHeaders, id \in LeaveIds, a \in Actions :
           approve_leave_read(SeqProc, h, id, a)
    \/ approve_leave_update(SeqProc)
    \/ send_response

LeaveSeqSpec == Init /\ [][NextLeaveSeq]_vars

\* concurrent requests to the auth endpoints
NextAuth ==
    \/ \E p \in Accepting, body \in RegisterBodies : register_find(p, body)
    \/ \E p \in Procs : register_insert(p)
    \/ \E p \in Accepting, body \in LoginBodies : login_find(p, body)
    \/ \E p \in Procs : login_insert(p)
    \/ \E p \in Accepting, h \in SessionHeaders : me(p, h)
    \/ \E p \in Accepting, h \in SessionHeaders : logout(p, h)
    \/ send_response

AuthSpec == AuthInit /\ [][NextAuth]_vars

\* requests to the auth endpoints, one at a time
NextAuthSeq ==
    \/ \E body \in RegisterBodies : register_find(SeqProc, body)
    \/ register_insert(SeqProc)
    \/ \E body \in LoginBodies : login_find(SeqProc, body)
    \/ login_insert(SeqProc)
    \/ \E h \in SessionHeaders : me(SeqProc, h)
    \/ \E h \in SessionHeaders : logout(SeqProc, h)
    \/ send_response

AuthSeqSpec == AuthInit /\ [][NextAuthSeq]_vars

(* ------------------------------ properties ------------------------------ *)
Pending == {"pending_manager", "pending_accountant"}
Terminal == {"approved", "rejected"}

\* process p performs the update_one of its approve_expense call in this step
UpdateStep(p) == calls[p].pc = "update" /\ calls'[p].pc = "idle"

\* process p takes up an approve_expense call in this step and lets it through
ReadStep(p) == calls[p].pc = "idle" /\ calls'[p].pc = "update"

\* the approve_expense request (h, id, action) is let through to its update_one
LetThrough(p, h, id, action) ==
    approve_expense_read(p, h, id, action) => calls'[p].pc = "update"

\* the approve_expense request (h, id, action) ends with this error and no
\* update_one pending, the collection as it was
Refused(p, h, id, action, code) ==
    approve_expense_read(p, h, id, action) =>
        /\ resp'.code = code
        /\ calls' = calls
        /\ expense' = expense

\* the audit entry of user u (the seeded user of that _id) for an action
Entry(u, action) == [by |-> u, role |-> users[u].role, action |-> action]

\* C1: approve on a pending_manager expense by a Manager or Admin is let
\* through and its update sets the status to pending_accountant.
C1_ManagerApprove ==
    [][\A p \in {SeqProc} :
        /\ \A h \in AuthHeaders, id \in DOMAIN expense :
              (/\ get_current_user(h).role \in {"Manager", "Admin"}
               /\ expense[id].status = "pending_manager")
              => LetThrough(p, h, id, "approve")
        /\ (/\ UpdateStep(p)
            /\ calls[p].action = "approve"
            /\ calls[p].role \in {"Manager", "Admin"}
            /\ expense[calls[p].id].status = "pending_manager")
           => expense'[calls[p].id].status = "pending_accountant"
    ]_vars

\* the Manager's approve has been answered: one entry, pending_accountant
C1_Witness ==
    /\ resp = Success
    /\ \E id \in DOMAIN expense :
          /\ expense[id].status = "pending_accountant"
          /\ Len(expense[id].approvals) = 1
          /\ expense[id].approvals[1].role = "Manager"
          /\ expense[id].approvals[1].action = "approve"

\* C2: approve on a pending_accountant expense by an Accountant or Admin is
\* let through and its update sets the status to approved.
C2_AccountantApprove ==
    [][\A p \in {SeqProc} :
        /\ \A h \in AuthHeaders, id \in DOMAIN expense :
              (/\ get_current_user(h).role \in {"Accountant", "Admin"}
               /\ expense[id].status = "pending_accountant")
              => LetThrough(p, h, id, "approve")
        /\ (/\ UpdateStep(p)
            /\ calls[p].action = "approve"
            /\ calls[p].role \in {"Accountant", "Admin"}
            /\ expense[calls[p].id].status = "pending_accountant")
           => expense'[calls[p].id].status = "approved"
    ]_vars

\* the Accountant's approve has been answered: second entry, approved
C2_Witness ==
    /\ resp = Success
    /\ \E id \in DOMAIN expense :
          /\ expense[id].status = "approved"
          /\ Len(expense[id].approvals) = 2
          /\ expense[id].approvals[1].action = "approve"
          /\ expense[id].approvals[2].role = "Accountant"
          /\ expense[id].approvals[2].action = "approve"

C4_Reject ==
    [][\A p \in {SeqProc} :
        /\ \A h \in AuthHeaders, id \in DOMAIN expense :
              (/\ get_current_user(h).code = OK
               /\ expense[id].status \in Pending
               /\ RoleAllowed(expense[id].status, get_current_user(h).role))
              => LetThrough(p, h, id, "reject")
        /\ (/\ UpdateStep(p)
            /\ calls[p].action = "reject"
            /\ expense[calls[p].id].status \in Pending)
           => /\ expense'[calls[p].id].status = "rejected"
              /\ expense'[calls[p].id].approvals =
                    Append(expense[calls[p].id].approvals,
                           [by |-> calls[p].by, role |-> calls[p].role, action |-> "reject"])
    ]_vars

\* the Accountant's reject of a pending_accountant expense has been answered
C4_Witness ==
    /\ resp = Success
    /\ \E id \in DOMAIN expense :
          /\ expense[id].status = "rejected"
          /\ Len(expense[id].approvals) = 2
          /\ expense[id].approvals[1].action = "approve"
          /\ expense[id].approvals[2].role = "Accountant"
          /\ expense[id].approvals[2].action = "reject"

\* C5: once the status of an expense is approved or rejected, no step of a
\* later approve_expense call changes it.
C5_TerminalStatusKept ==
    [][\A id \in DOMAIN expense :
        expense[id].status \in Terminal => expense'[id].status = expense[id].status
    ]_vars

\* C6: the approvals list of every expense changes only by the update of a
\* call, which appends one entry at its end; the entry records the id and
\* the role of the user the call's token resolves to and the action
\* submitted; that update is the step that answers 200.
C6_AppendOnly ==
    [][/\ \A id \in DOMAIN expense :
            \/ expense'[id].approvals = expense[id].approvals
            \/ \E p \in {SeqProc} :
                  /\ UpdateStep(p)
                  /\ calls[p].id = id
                  /\ resp' = Success
                  /\ expense'[id].approvals =
                        Append(expense[id].approvals,
                               [by |-> calls[p].by, role |-> calls[p].role,
                                action |-> calls[p].action])
       /\ \A p \in {SeqProc}, h \in AuthHeaders, id \in DOMAIN expense, a \in Actions :
            (ReadStep(p) /\ approve_expense_read(p, h, id, a))
            => /\ calls'[p].by = get_current_user(h)._id
               /\ calls'[p].role = users[get_current_user(h)._id].role
               /\ calls'[p].action = a
               /\ calls'[p].id = id
       /\ \A p \in {SeqProc} :
            approve_expense_update(p)
            => /\ resp'.code = OK
               /\ Len(expense'[calls[p].id].approvals) =
                     Len(expense[calls[p].id].approvals) + 1
    ]_vars

\* three calls answered: the list holds their entries in call order
C6_Witness ==
    /\ resp = Success
    /\ \E id \in DOMAIN expense :
          expense[id].approvals =
              <<Entry(2, "approve"), Entry(1, "reject"), Entry(3, "approve")>>

\* C7: approve on an expense already approved or rejected, by any
\* authenticated user, is let through whatever the role, leaves the status
\* as it is, appends exactly one entry and answers 200.
C7_ApproveOnTerminal ==
    [][\A p \in {SeqProc} :
        /\ \A h \in AuthHeaders, id \in DOMAIN expense :
              (/\ get_current_user(h).code = OK
               /\ expense[id].status \in Terminal)
              => LetThrough(p, h, id, "approve")
        /\ (/\ UpdateStep(p)
            /\ calls[p].action = "approve"
            /\ expense[calls[p].id].status \in Terminal)
           => /\ expense'[calls[p].id].status = expense[calls[p].id].status
              /\ Len(expense'[calls[p].id].approvals) =
                    Len(expense[calls[p].id].approvals) + 1
              /\ resp' = Success
    ]_vars

\* the Engineer's approve of an approved expense has been answered 200
C7_Witness ==
    /\ resp = Success
    /\ \E id \in DOMAIN expense :
          /\ expense[id].status = "approved"
          /\ Len(expense[id].approvals) = 3
          /\ expense[id].approvals[2] = Entry(4, "approve")
          /\ expense[id].approvals[3] = Entry(3, "approve")

\* C8: a call computes its new status from the status it reads, and its
\* update, whatever has been written since that read, appends its entry to
\* the list as stored and sets the stored status to that new status,
\* leaving every call that has read and not yet written as it was.  So of
\* two calls that both read before either writes, both entries are appended
\* and the status is the one computed by the call that writes last.
C8_LastWriteWins ==
    [][\A p \in Procs :
        /\ ReadStep(p) =>
              \A h \in AuthHeaders, id \in DOMAIN expense, a \in Actions :
                  approve_expense_read(p, h, id, a)
                  => calls'[p].new_status = NewStatus(expense[id].status, a)
        /\ UpdateStep(p) =>
              LET id == calls[p].id IN
              /\ expense'[id].approvals =
                    Append(expense[id].approvals,
                           [by |-> calls[p].by, role |-> calls[p].role,
                            action |-> calls[p].action])
              /\ expense'[id].status = calls[p].new_status
              /\ \A q \in Procs \ {p} : calls'[q] = calls[q]
    ]_vars

\* Two calls read the expense pending_manager: the Admin's reject was written
\* first, the Manager's approve last, and the status is pending_accountant.
C8_Witness ==
    \E id \in DOMAIN expense :
        /\ expense[id].approvals = <<Entry(1, "reject"), Entry(2, "approve")>>
        /\ expense[id].status = "pending_accountant"

\* project numbers held by inserted projects and by calls between their
\* counter increment and their insert
IssuedNumbers ==
    { project[i].number : i \in DOMAIN project }
        \cup { calls[q].number : q \in { r \in Procs : calls[r].pc = "insert" } }

\* number of project numbers handed out so far
IssuedCount ==
    Len(project) + Cardinality({ r \in Procs : calls[r].pc = "insert" })

\* C9: in every interleaving of create_project calls each counter increment
\* hands its call a number greater than every number handed out before it,
\* 1 on an empty counter; the numbers handed out are pairwise distinct and
\* each call answers with the number it was handed.
C9_ProjectNumbers ==
    [][/\ \A p \in Procs :
            (calls[p].pc = "idle" /\ calls'[p].pc = "insert")
            => /\ \A n \in IssuedNumbers : calls'[p].number > n
               /\ counter = <<>> => calls'[p].number = 1
       /\ \A p \in Procs :
            create_project_insert(p)
            => /\ resp'.code = OK
               /\ resp'.number = calls[p].number
               /\ project'[Len(project')].number = calls[p].number
       /\ Cardinality(IssuedNumbers') = IssuedCount'
    ]_vars

\* two calls incremented before either inserted, and inserted in the other order
C9_Witness ==
    /\ Len(project) = 3
    /\ project[1].number = 2
    /\ project[2].number = 1
    /\ project[3].number = 3

\* C10: create_expense by an Engineer, Manager or Admin stores one new
\* expense, pending_manager with no approvals, and answers 200; by an
\* Accountant it answers 403 and the collection is as it was.
C10_CreateExpense ==
    [][\A p \in {SeqProc}, h \in AuthHeaders :
        create_expense(p, h) =>
            LET user == get_current_user(h) IN
            /\ user.role \in {"Engineer", "Manager", "Admin"}
               => /\ Len(expense') = Len(expense) + 1
                  /\ \A id \in DOMAIN expense : expense'[id] = expense[id]
                  /\ expense'[Len(expense')].status = "pending_manager"
                  /\ expense'[Len(expense')].approvals = <<>>
                  /\ resp'.code = OK
            /\ user.role = "Accountant"
               => /\ resp'.code = Forbidden
                  /\ expense' = expense
    ]_vars

\* a create_expense call has been answered 200 and its document is stored
C10_Witness ==
    /\ resp = Success
    /\ Len(expense) = 1
    /\ expense[1].status = "pending_manager"
    /\ expense[1].approvals = <<>>

\* C16: in every reachable state, overlapping calls included, the approvals
\* list of an approved expense holds an approve by a Manager or Admin and,
\* later in the list, an approve by an Accountant or Admin.
C16_ApprovedPassedBothGates ==
    \A id \in DOMAIN expense :
        expense[id].status = "approved" =>
            \E i, j \in DOMAIN expense[id].approvals :
                /\ i < j
                /\ expense[id].approvals[i].action = "approve"
                /\ expense[id].approvals[i].role \in {"Manager", "Admin"}
                /\ expense[id].approvals[j].action = "approve"
                /\ expense[id].approvals[j].role \in {"Accountant", "Admin"}

\* an expense approved by the first of two overlapping calls that both read
\* it pending_accountant, the other call's update still to come
C16_Witness ==
    \E id \in DOMAIN expense, p \in Procs :
        /\ expense[id].status = "approved"
        /\ Len(expense[id].approvals) = 2
        /\ calls[p].pc = "update"
        /\ calls[p].id = id
        /\ calls[p].new_status = "approved"

\* C17: with overlapping approve_expense calls, once the stored status of an
\* expense is rejected no step gives it another value.
C17_RejectedStaysUnderOverlap ==
    [][\A id \in DOMAIN expense :
        expense[id].status = "rejected" => expense'[id].status = "rejected"
    ]_vars

\* C18: with one call at a time, a call on a rejected expense by any
\* authenticated user with either action is let through and its update
\* leaves the status rejected.
C18_RejectedAbsorbing ==
    [][\A p \in {SeqProc} :
        /\ \A h \in AuthHeaders, id \in DOMAIN expense, a \in Actions :
              (/\ get_current_user(h).code = OK
               /\ expense[id].status = "rejected")
              => LetThrough(p, h, id, a)
        /\ (UpdateStep(p) /\ expense[calls[p].id].status = "rejected")
           => expense'[calls[p].id].status = "rejected"
    ]_vars

\* the Manager's reject, then the Engineer's approve and the Admin's reject
\* answered on the rejected expense
C18_Witness ==
    /\ resp = Success
    /\ \E id \in DOMAIN expense :
          /\ expense[id].status = "rejected"
          /\ expense[id].approvals =
                <<Entry(2, "reject"), Entry(3, "approve"), Entry(1, "reject")>>

\* C19: with one call at a time, an expense is pending_manager exactly when
\* its approvals list is empty, pending_accountant only with one entry, an
\* approve by a Manager or Admin, and approved only with two entries or more.
C19_StatusAndLength ==
    \A id \in DOMAIN expense :
        LET e == expense[id] IN
        /\ e.status = "pending_manager" <=> e.approvals = <<>>
        /\ e.status = "pending_accountant" =>
              /\ Len(e.approvals) = 1
              /\ e.approvals[1].action = "approve"
              /\ e.approvals[1].role \in {"Manager", "Admin"}
        /\ e.status = "approved" => Len(e.approvals) >= 2

\* approved by the Admin at both stages, then a third entry on the approved expense
C19_Witness ==
    \E id \in DOMAIN expense :
        /\ expense[id].status = "approved"
        /\ expense[id].approvals =
              <<Entry(1, "approve"), Entry(1, "approve"), Entry(2, "approve")>>

\* C11: approve_leave on an existing leave by a Manager or Admin is let
\* through and its update sets the status to approved for action approve and
\* to rejected for action reject, answering 200; no leave is ever
\* pending_accountant; by an Engineer or Accountant the call ends Forbidden
\* with no update pending and the collection as it was.
C11_ApproveLeave ==
    [][/\ \A p \in Procs, h \in AuthHeaders, id \in DOMAIN leave, a \in Actions :
            approve_leave_read(p, h, id, a) =>
                LET role == get_current_user(h).role IN
                /\ role \in {"Manager", "Admin"}
                   => /\ calls'[p].pc = "update_leave"
                      /\ calls'[p].id = id
                      /\ calls'[p].action = a
                /\ role \in {"Engineer", "Accountant"}
                   => /\ resp'.code = Forbidden
                      /\ calls' = calls
                      /\ leave' = leave
       /\ \A p \in Procs :
            approve_leave_update(p) =>
                /\ leave'[calls[p].id].status =
                      (IF calls[p].action = "approve" THEN "approved" ELSE "rejected")
                /\ resp' = Success
       /\ \A id \in DOMAIN leave' : leave'[id].status # "pending_accountant"
    ]_vars

\* the Engineer's leave, approved in one stage, the call answered 200
C11_Witness ==
    /\ resp = Success
    /\ \E id \in DOMAIN leave : leave[id] = [status |-> "approved", user_id |-> 3]

\* C12: once the status of a leave is approved or rejected, no step of a
\* later approve_leave call changes it.
C12_LeaveTerminalKept ==
    [][\A id \in DOMAIN leave :
        leave[id].status \in Terminal => leave'[id].status = leave[id].status
    ]_vars

\* h is a bearer header
IsBearer(h) == h # NoHeader /\ Lower(h[1]) = "bearer"

\* C13: with one request at a time, login with the email of a registered
\* user and that user's password is let through and its insert stores a
\* session under a new token that get_current_user resolves to that user,
\* as /auth/me answers for every stored token; login with another password
\* or an email no user has ends Unauthenticated and no session is stored.
C13_Login ==
    [][\A p \in {SeqProc} :
        /\ \A body \in LoginBodies :
              login_find(p, body) =>
                  IF \E i \in DOMAIN users : /\ users[i].email = body.email
                                             /\ users[i].password = body.password
                  THEN /\ calls'[p].pc = "insert_session"
                       /\ users[calls'[p].by].email = body.email
                       /\ users[calls'[p].by].password = body.password
                  ELSE /\ resp'.code = Unauthenticated
                       /\ calls' = calls
                       /\ session' = session
        /\ login_insert(p) =>
              /\ resp'.code = OK
              /\ resp'.user = calls[p].by
              /\ resp'.token \notin DOMAIN session
              /\ \A t \in 0..(MaxSessions + 1) :
                    resp'.token = t =>
                        /\ get_current_user(<<"Bearer", t>>)'.code = OK
                        /\ get_current_user(<<"Bearer", t>>)'._id = calls[p].by
        /\ \A h \in SessionHeaders :
              (me(p, h) /\ IsBearer(h) /\ h[2] \in DOMAIN session)
              => /\ resp'.code = OK
                 /\ resp'.user = session[h[2]].user_id
        /\ (session' # session /\ DOMAIN session \subseteq DOMAIN session')
           => login_insert(p)
    ]_vars

\* the second user's login has been answered with the second token, stored
\* for that user
C13_Witness ==
    /\ resp = [Success EXCEPT !.token = 2, !.user = 2]
    /\ 2 \in DOMAIN session
    /\ session[2].user_id = 2
    /\ users[2].email = "b@x"

\* C14: logout with a bearer token leaves get_current_user answering 401 for
\* that token and what it answered before for every other token; a token
\* issued and no longer stored is never stored again, and /auth/me with it
\* ends Unauthenticated; a stored token stays stored, for the same user,
\* through every step but a logout presenting it.
C14_Logout ==
    [][/\ \A p \in Procs, h \in SessionHeaders :
            (logout(p, h) /\ IsBearer(h)) =>
                \A t \in 0..MaxSessions :
                    IF t = h[2]
                    THEN get_current_user(<<"Bearer", t>>)'.code = Unauthenticated
                    ELSE get_current_user(<<"Bearer", t>>)' = get_current_user(<<"Bearer", t>>)
       /\ \A t \in 1..uuids : t \notin DOMAIN session => t \notin DOMAIN session'
       /\ \A p \in Procs, h \in SessionHeaders :
            (me(p, h) /\ IsBearer(h) /\ h[2] \notin DOMAIN session)
            => resp'.code = Unauthenticated
       /\ \A t \in DOMAIN session :
            IF t \in DOMAIN session'
            THEN get_current_user(<<"Bearer", t>>)' = get_current_user(<<"Bearer", t>>)
            ELSE \E p \in Procs : logout(p, <<"Bearer", t>>)
    ]_vars

\* two tokens issued to the same user, the first logged out and then refused
\* by /auth/me, the second still stored for that user
C14_Witness ==
    /\ uuids = 2
    /\ DOMAIN session = {2}
    /\ session[2].user_id = 1
    /\ Len(users) = 1
    /\ resp = HTTPException(Unauthenticated, "Invalid session")

\* C15: in every reachable state, overlapping register calls included, no
\* two user records hold the same email.
C15_OneUserPerEmail ==
    \A i, j \in DOMAIN users : users[i].email = users[j].email => i = j

====
